---- MODULE Spec2Model ----
(***************************************************************************)
(* Model of lumberjack's tree surgery (tree_modification.rs): the tree is  *)
(* a directed graph of Terminal / NonTerminal nodes with stable indices,   *)
(* the operations are annotate_pos, annotate_parent_tag,                   *)
(* insert_intermediate, filter_nonterminals, collapse_unary_chains,        *)
(* restore_unary_chains and projectivize.                                  *)
(*                                                                         *)
(* Labels and feature values are sequences of one-character strings, so    *)
(* that join / split on a delimiter are computed, not assumed.             *)
(* Edge weights (edge labels) are numbers, 0 being Edge::default().        *)
(***************************************************************************)
EXTENDS Integers, Sequences, FiniteSets, TLC

VARIABLES
    tree,       \* the Tree: nodes, node payloads, edges, root, n_terminals, projectivity
    pc,         \* position inside projectivize(): "idle" | "dfs" | "skips"
    terminals,  \* projectivize: the collected terminals vector
    dfs,        \* projectivize: DfsPostOrder state (stack, discovered, finished)
    log,        \* projectivize: per-terminal claimed lower bound (NoClaim = None)
    apc,        \* projectivize: attachment_point_candidate
    span,       \* projectivize: owned copy of the candidate's discontinuous span
    skips,      \* projectivize: working copy of the skip set
    pre,        \* history: the tree before the last call
    last,       \* history: the last call, its arguments and its result
    pre2,       \* history: the tree before the call that preceded the last one
    last2,      \* history: the call that preceded the last one
    failed,     \* history: some call has returned an error
    moves,      \* history: reattachments done by the running projectivize call
    nops,       \* history: number of calls made so far
    feat,       \* a feature string, the Features parsed from it, their serialization
    conv        \* the sentences the two CoNLL-X conversions returned

vars == <<tree, pc, terminals, dfs, log, apc, span, skips, pre, last, pre2, last2, failed,
          moves, nops, feat, conv>>

ioVars == <<feat, conv>>

----------------------------------------------------------------------------
(* Bounds of the model *)

MaxTerminals == 3
MaxNonTerminals == 3
MaxOps == 2
MaxNodes == 12
MaxProjTerminals == 5
MaxProjNonTerminals == 3
MaxBranchingTerminals == 6
MaxBranchingNonTerminals == 4

NoNode == -1
NoClaim == -1
DefaultEdge == 0

----------------------------------------------------------------------------
(* Sequences of characters *)

IsPrefixAt(s, d, i) ==
    /\ i + Len(d) - 1 <= Len(s)
    /\ \A j \in 1..Len(d) : s[i + j - 1] = d[j]

RECURSIVE SplitFrom(_, _, _, _)
\* str::split(delim) from index i on, cur is the piece collected so far
SplitFrom(s, d, i, cur) ==
    IF i > Len(s) THEN <<cur>>
    ELSE IF IsPrefixAt(s, d, i)
         THEN <<cur>> \o SplitFrom(s, d, i + Len(d), <<>>)
         ELSE SplitFrom(s, d, i + 1, Append(cur, s[i]))

\* chain.split(delim); an empty pattern matches at every character boundary
Split(s, d) ==
    IF d = <<>>
    THEN <<(<<>>)>> \o [i \in 1..Len(s) |-> <<s[i]>>] \o <<(<<>>)>>
    ELSE SplitFrom(s, d, 1, <<>>)

RECURSIVE Join(_, _)
\* chain.join(delim)
Join(chain, d) ==
    IF chain = <<>> THEN <<>>
    ELSE IF Len(chain) = 1 THEN chain[1]
    ELSE chain[1] \o d \o Join(Tail(chain), d)

----------------------------------------------------------------------------
(* Span *)

Continuous(l, u) == [lower |-> l, upper |-> u, skips |-> {}]

Covered(s) == (s.lower .. (s.upper - 1)) \ s.skips

IsDiscontinuous(s) == s.skips # {}

SetMin(S) == CHOOSE x \in S : \A y \in S : x <= y
SetMax(S) == CHOOSE x \in S : \A y \in S : x >= y

\* Span::from_vec on a non-empty set of positions
FromPositions(S) ==
    [lower |-> SetMin(S), upper |-> SetMax(S) + 1,
     skips |-> (SetMin(S) .. SetMax(S)) \ S]

\* Span::extend: the upper bound grows by one
ExtendSpan(s) == [s EXCEPT !.upper = s.upper + 1]

----------------------------------------------------------------------------
(* Features: an ordered vector of (key, optional value) *)

NoVal == [some |-> FALSE, val |-> <<>>]
SomeVal(v) == [some |-> TRUE, val |-> v]

KeyIndex(vec, key) ==
    IF \E i \in 1..Len(vec) : vec[i].k = key
    THEN CHOOSE i \in 1..Len(vec) : vec[i].k = key /\ \A j \in 1..(i-1) : vec[j].k # key
    ELSE 0

\* insert without the search for the key: always push
FeaturesInsertPush(vec, key, val) == Append(vec, [k |-> key, v |-> val])

\* Features::insert: replace in place on key match, else push
FeaturesInsert(vec, key, val) ==
    IF KeyIndex(vec, key) # 0
    THEN [vec EXCEPT ![KeyIndex(vec, key)].v = val]
    ELSE Append(vec, [k |-> key, v |-> val])

\* Features::remove: drop the pair, return its value
FeaturesRemove(vec, key) ==
    LET i == KeyIndex(vec, key) IN
    IF i = 0 THEN vec
    ELSE SubSeq(vec, 1, i - 1) \o SubSeq(vec, i + 1, Len(vec))

FeaturesGet(vec, key) ==
    IF KeyIndex(vec, key) = 0 THEN NoVal ELSE vec[KeyIndex(vec, key)].v

UNARY_CHAIN == <<"u", "c">>

Colon == <<":">>
Pipe == <<"|">>

\* str::find(':'): the index of the first colon, 0 when there is none
FindColon(f) ==
    IF \E i \in 1..Len(f) : f[i] = ":"
    THEN CHOOSE i \in 1..Len(f) : f[i] = ":" /\ \A j \in 1..(i-1) : f[j] # ":"
    ELSE 0

\* one field of Features::from: split_at(idx) cuts before the colon, the
\* second piece starts with it
FieldFrom(f) ==
    LET idx == FindColon(f) IN
    IF idx # 0
    THEN [k |-> SubSeq(f, 1, idx - 1), v |-> SomeVal(SubSeq(f, idx, Len(f)))]
    ELSE [k |-> f, v |-> NoVal]

\* Features::from(s)
FeaturesFrom(s) ==
    LET fields == Split(s, Pipe) IN [i \in 1..Len(fields) |-> FieldFrom(fields[i])]

\* Features::to_string()
FeaturesToString(vec) ==
    Join([i \in 1..Len(vec) |->
            IF vec[i].v.some THEN vec[i].k \o Colon \o vec[i].v.val ELSE vec[i].k], Pipe)

NoFeat == [stage |-> "none", input |-> <<>>, parsed |-> <<>>, printed |-> <<>>]
NoConv == [borrowed |-> <<>>, owned |-> <<>>, calls |-> {}]

----------------------------------------------------------------------------
(* Tree queries *)

IsTerminal(t, n) == t.node[n].kind = "T"
IsNonTerminal(t, n) == t.node[n].kind = "NT"

TerminalNodes(t) == {n \in t.nodes : IsTerminal(t, n)}

Incoming(t, n) == {e \in t.edges : e.dst = n}

HasParent(t, n) == Incoming(t, n) # {}

\* Tree::parent: the first incoming edge (unique in a rooted tree)
ParentEdge(t, n) == CHOOSE e \in Incoming(t, n) : TRUE

Parent(t, n) == IF HasParent(t, n) THEN ParentEdge(t, n).src ELSE NoNode

Children(t, n) == {e.dst : e \in {f \in t.edges : f.src = n}}

RECURSIVE SortByPosition(_, _)
SortByPosition(t, S) ==
    IF S = {} THEN <<>>
    ELSE LET m == CHOOSE x \in S :
                    \A y \in S : t.node[x].span.lower <= t.node[y].span.lower
         IN <<m>> \o SortByPosition(t, S \ {m})

\* Tree::terminals: the terminal handles sorted by terminal position
Terminals(t) == SortByPosition(t, TerminalNodes(t))

\* StableGraph::add_node: a fresh index
NewIndex(t) == CHOOSE i \in 0..Cardinality(t.nodes) :
                    i \notin t.nodes /\ \A j \in 0..(i-1) : j \in t.nodes

NoFeatures == [some |-> FALSE, vec |-> <<>>]
SomeFeatures(vec) == [some |-> TRUE, vec |-> vec]

\* NonTerminal::new(label, span): no features
NewNonTerminal(lab, sp) ==
    [kind |-> "NT", label |-> lab, form |-> 0, span |-> sp, features |-> NoFeatures]

\* Terminal::new(form, label, position): no features, no lemma
NewTerminal(form, lab, pos) ==
    [kind |-> "T", label |-> lab, form |-> form, span |-> Continuous(pos, pos + 1),
     features |-> NoFeatures, lemma |-> NoVal]

\* features_mut(): the feature vector, created empty when absent
FeaturesMut(nd) == nd.features.vec

SetFeatures(t, n, vec) == [t EXCEPT !.node[n].features = SomeFeatures(vec)]

AddNode(t, n, payload) ==
    [t EXCEPT !.nodes = @ \cup {n},
              !.node = [m \in t.nodes \cup {n} |-> IF m = n THEN payload ELSE t.node[m]]]

AddEdge(t, s, d, w) ==
    [t EXCEPT !.edges = @ \cup {[src |-> s, dst |-> d, w |-> w]}]

RemoveEdge(t, e) == [t EXCEPT !.edges = @ \ {e}]

\* StableGraph::update_edge: replace the weight of an existing edge or add one
UpdateEdge(t, s, d, w) ==
    [t EXCEPT !.edges = {e \in @ : ~(e.src = s /\ e.dst = d)}
                            \cup {[src |-> s, dst |-> d, w |-> w]}]

\* StableGraph::remove_node: the node and its incident edges disappear
RemoveNode(t, n) ==
    [t EXCEPT !.nodes = @ \ {n},
              !.node = [m \in t.nodes \ {n} |-> t.node[m]],
              !.edges = {e \in @ : e.src # n /\ e.dst # n}]

\* LabelSet::matches
Matches(ts, lab) == IF ts.positive THEN lab \in ts.set ELSE lab \notin ts.set

----------------------------------------------------------------------------
(* Trees a reader can construct: non-terminals 0..nN-1 (0 is the root, a   *)
(* parent has a smaller index than its child), terminal p is node nN + p.  *)
(* ntp gives the parent of each non-root non-terminal, tp the parent of    *)
(* each terminal, lab the non-terminal labels.  Spans are derived from the *)
(* terminals below a node (I3), every non-terminal dominates a terminal    *)
(* (I2), positions are 0..nT-1 (I4) and the flag says whether a span is    *)
(* discontinuous (I5).                                                     *)

RECURSIVE NtAncestors(_, _)
\* i and the non-terminals above it
NtAncestors(ntp, i) == IF i = 0 THEN {0} ELSE {i} \cup NtAncestors(ntp, ntp[i])

DescPos(nT, ntp, tp, i) == {p \in 0..(nT-1) : i \in NtAncestors(ntp, tp[p])}

NtDepth(ntp, i) == Cardinality(NtAncestors(ntp, i)) - 1

\* one representative per isomorphism class: non-terminals are numbered by
\* (lowest position, depth)
CanonicalShape(nN, nT, ntp, tp) ==
    /\ \A i \in 1..(nN-1) : ntp[i] < i
    /\ \A i \in 0..(nN-1) : DescPos(nT, ntp, tp, i) # {}
    /\ \A i, j \in 0..(nN-1) :
          i < j =>
            LET li == SetMin(DescPos(nT, ntp, tp, i))
                lj == SetMin(DescPos(nT, ntp, tp, j))
            IN \/ li < lj
               \/ li = lj /\ NtDepth(ntp, i) < NtDepth(ntp, j)

TerminalLabel == <<"T">>

MkTree(nN, nT, ntp, tp, lab) ==
    LET nts == 0..(nN-1)
        all == 0..(nN+nT-1)
        sp(i) == FromPositions(DescPos(nT, ntp, tp, i))
    IN [nodes |-> all,
        node |-> [n \in all |->
                    IF n < nN THEN NewNonTerminal(lab[n], sp(n))
                    ELSE NewTerminal(n - nN + 1, TerminalLabel, n - nN)],
        edges |-> {[src |-> ntp[i], dst |-> i, w |-> i + 1] : i \in 1..(nN-1)}
                  \cup {[src |-> tp[p], dst |-> nN + p, w |-> nN + p + 1] : p \in 0..(nT-1)},
        root |-> 0,
        n_terminals |-> nT,
        projectivity |-> IF \E i \in nts : IsDiscontinuous(sp(i))
                         THEN "Nonprojective" ELSE "Projective"]

----------------------------------------------------------------------------
(* AnnotatePOS::annotate_pos *)

RECURSIVE AnnotatePosLoopLeftover(_, _, _)
\* annotate_pos without the check for leftover tags
AnnotatePosLoopLeftover(t, terms, tags) ==
    IF terms = <<>>
    THEN [ok |-> TRUE, tree |-> t]
    ELSE IF tags = <<>>
         THEN [ok |-> FALSE, tree |-> t]
         ELSE AnnotatePosLoopLeftover([t EXCEPT !.node[Head(terms)].label = Head(tags)],
                                      Tail(terms), Tail(tags))

RECURSIVE AnnotatePosLoop(_, _, _)
AnnotatePosLoop(t, terms, tags) ==
    IF terms = <<>>
    THEN \* leftover tags are an error, the labels stay written
         [ok |-> tags = <<>>, tree |-> t]
    ELSE IF tags = <<>>
         THEN [ok |-> FALSE, tree |-> t]
         ELSE AnnotatePosLoop([t EXCEPT !.node[Head(terms)].label = Head(tags)],
                              Tail(terms), Tail(tags))

AnnotatePos(t, tags) == AnnotatePosLoop(t, Terminals(t), tags)

----------------------------------------------------------------------------
(* TreeOps::annotate_parent_tag *)

RECURSIVE AnnotateParentTagLoop(_, _, _)
\* the loop that passes over a terminal without parent instead of failing
AnnotateParentTagLoopSkipOrphan(t, terms, fname) ==
    IF terms = <<>> THEN [ok |-> TRUE, tree |-> t]
    ELSE LET terminal == Head(terms) IN
         IF ~HasParent(t, terminal) THEN AnnotateParentTagLoop(t, Tail(terms), fname)
         ELSE LET lab == t.node[Parent(t, terminal)].label
                  vec == FeaturesInsert(FeaturesMut(t.node[terminal]), fname, SomeVal(lab))
              IN AnnotateParentTagLoop(SetFeatures(t, terminal, vec), Tail(terms), fname)

AnnotateParentTagLoop(t, terms, fname) ==
    IF terms = <<>> THEN [ok |-> TRUE, tree |-> t]
    ELSE LET terminal == Head(terms) IN
         IF ~HasParent(t, terminal) THEN [ok |-> FALSE, tree |-> t]
         ELSE LET lab == t.node[Parent(t, terminal)].label
                  vec == FeaturesInsert(FeaturesMut(t.node[terminal]), fname, SomeVal(lab))
              IN AnnotateParentTagLoop(SetFeatures(t, terminal, vec), Tail(terms), fname)

AnnotateParentTag(t, fname) == AnnotateParentTagLoop(t, Terminals(t), fname)

----------------------------------------------------------------------------
(* TreeOps::insert_intermediate *)

NoAttachment == [some |-> FALSE, position |-> 0, insert |-> NoNode]

RECURSIVE InsertIntermediateLoopAnyGap(_, _, _, _, _, _)
\* insert_intermediate without the test that the previous insertion was at
\* the position directly before
InsertIntermediateLoopAnyGap(t, terms, position, prev, ts, lab) ==
    IF position >= Len(terms) THEN [ok |-> TRUE, tree |-> t]
    ELSE
    LET terminal == terms[position + 1] IN
    IF ~HasParent(t, terminal) THEN [ok |-> FALSE, tree |-> t]
    ELSE
    LET edge == ParentEdge(t, terminal)
        parent == edge.src
    IN
    IF Matches(ts, t.node[parent].label)
    THEN InsertIntermediateLoopAnyGap(t, terms, position + 1, prev, ts, lab)
    ELSE
    LET t1 == RemoveEdge(t, edge)
        weight == edge.w
    IN
    IF prev.some /\ Parent(t1, prev.insert) = parent
    THEN LET t2 == AddEdge(t1, prev.insert, terminal, weight)
             t3 == [t2 EXCEPT !.node[prev.insert].span = ExtendSpan(@)]
         IN InsertIntermediateLoopAnyGap(t3, terms, position + 1,
                [some |-> TRUE, position |-> position, insert |-> prev.insert], ts, lab)
    ELSE LET inserted == NewIndex(t1)
             t2 == AddNode(t1, inserted, NewNonTerminal(lab, t1.node[terminal].span))
             t3 == AddEdge(t2, parent, inserted, weight)
             t4 == AddEdge(t3, inserted, terminal, weight)
         IN InsertIntermediateLoopAnyGap(t4, terms, position + 1,
                [some |-> TRUE, position |-> position, insert |-> inserted], ts, lab)

RECURSIVE InsertIntermediateLoop(_, _, _, _, _, _)
InsertIntermediateLoop(t, terms, position, prev, ts, lab) ==
    IF position >= Len(terms) THEN [ok |-> TRUE, tree |-> t]
    ELSE
    LET terminal == terms[position + 1] IN
    IF ~HasParent(t, terminal) THEN [ok |-> FALSE, tree |-> t]
    ELSE
    LET edge == ParentEdge(t, terminal)
        parent == edge.src
    IN
    IF Matches(ts, t.node[parent].label)
    THEN InsertIntermediateLoop(t, terms, position + 1, prev, ts, lab)
    ELSE
    LET t1 == RemoveEdge(t, edge)
        weight == edge.w
    IN
    IF prev.some /\ prev.position = position - 1 /\ Parent(t1, prev.insert) = parent
    THEN LET t2 == AddEdge(t1, prev.insert, terminal, weight)
             t3 == [t2 EXCEPT !.node[prev.insert].span = ExtendSpan(@)]
         IN InsertIntermediateLoop(t3, terms, position + 1,
                [some |-> TRUE, position |-> position, insert |-> prev.insert], ts, lab)
    ELSE LET inserted == NewIndex(t1)
             t2 == AddNode(t1, inserted, NewNonTerminal(lab, t1.node[terminal].span))
             t3 == AddEdge(t2, parent, inserted, weight)
             t4 == AddEdge(t3, inserted, terminal, weight)
         IN InsertIntermediateLoop(t4, terms, position + 1,
                [some |-> TRUE, position |-> position, insert |-> inserted], ts, lab)

InsertIntermediate(t, ts, lab) ==
    InsertIntermediateLoop(t, Terminals(t), 0, NoAttachment, ts, lab)

----------------------------------------------------------------------------
(* TreeOps::filter_nonterminals *)

RECURSIVE SortAscending(_)
\* node_indices(): ascending index order
SortAscending(S) ==
    IF S = {} THEN <<>>
    ELSE <<SetMin(S)>> \o SortAscending(S \ {SetMin(S)})

FilterKeep(t, ts) ==
    {n \in t.nodes \ {t.root} : IsTerminal(t, n) \/ Matches(ts, t.node[n].label)}

\* the delete set without the test that the node is a non-terminal
FilterDeleteAnyKind(t, ts) ==
    {n \in t.nodes \ {t.root} : ~Matches(ts, t.node[n].label)}

FilterDelete(t, ts) ==
    {n \in t.nodes \ {t.root} : IsNonTerminal(t, n) /\ ~Matches(ts, t.node[n].label)}

RECURSIVE FilterClimbPastRoot(_, _, _, _, _)
\* the climb without the test `parent_idx == self.root()`
FilterClimbPastRoot(t, node, edge, c, ts) ==
    IF ~HasParent(t, c) THEN [ok |-> TRUE, tree |-> t]
    ELSE LET parent_idx == Parent(t, c) IN
         IF IsTerminal(t, parent_idx) THEN [ok |-> FALSE, tree |-> t]
         ELSE IF Matches(ts, t.node[parent_idx].label)
              THEN [ok |-> TRUE,
                    tree |-> UpdateEdge(RemoveEdge(t, edge), parent_idx, node, edge.w)]
              ELSE FilterClimbPastRoot(t, node, edge, parent_idx, ts)

RECURSIVE FilterClimb(_, _, _, _, _)
\* the Climber loop of one kept node: c is the climber's current node
FilterClimb(t, node, edge, c, ts) ==
    IF ~HasParent(t, c) THEN [ok |-> TRUE, tree |-> t]
    ELSE LET parent_idx == Parent(t, c) IN
         IF IsTerminal(t, parent_idx) THEN [ok |-> FALSE, tree |-> t]
         ELSE IF Matches(ts, t.node[parent_idx].label) \/ parent_idx = t.root
              THEN [ok |-> TRUE,
                    tree |-> UpdateEdge(RemoveEdge(t, edge), parent_idx, node, edge.w)]
              ELSE FilterClimb(t, node, edge, parent_idx, ts)

RECURSIVE FilterKeepLoop(_, _, _)
FilterKeepLoop(t, keep, ts) ==
    IF keep = <<>> THEN [ok |-> TRUE, tree |-> t]
    ELSE LET node == Head(keep) IN
         IF ~HasParent(t, node) THEN [ok |-> FALSE, tree |-> t]
         ELSE LET r == FilterClimb(t, node, ParentEdge(t, node), node, ts) IN
              IF ~r.ok THEN r ELSE FilterKeepLoop(r.tree, Tail(keep), ts)

RECURSIVE RemoveNodes(_, _)
RemoveNodes(t, del) ==
    IF del = <<>> THEN t
    ELSE RemoveNodes(IF Head(del) \in t.nodes THEN RemoveNode(t, Head(del)) ELSE t, Tail(del))

FilterNonterminals(t, ts) ==
    LET keep == SortAscending(FilterKeep(t, ts))
        delete == SortAscending(FilterDelete(t, ts))
        r == FilterKeepLoop(t, keep, ts)
    IN IF ~r.ok THEN r
       ELSE [ok |-> TRUE, tree |-> RemoveNodes(r.tree, delete)]

----------------------------------------------------------------------------
(* TreeOps::collapse_unary_chains *)

SetRoot(t, n) == [t EXCEPT !.root = n]

InsertUnaryChain(t, n, chain, delim) ==
    SetFeatures(t, n, FeaturesInsert(FeaturesMut(t.node[n]), UNARY_CHAIN,
                                     SomeVal(Join(chain, delim))))

RECURSIVE CollapseClimbMarkAbove(_, _, _, _, _, _, _)
\* the climb with the feature written to `node`, the node above the chain,
\* instead of `cur`
CollapseClimbMarkAbove(t, c, cur, del, prev_span, chain, delim) ==
    IF ~HasParent(t, c)
    THEN [ok |-> TRUE, tree |-> t, cur |-> cur, del |-> del, chain |-> chain]
    ELSE
    LET node == Parent(t, c) IN
    IF t.node[node].span = prev_span
    THEN IF IsTerminal(t, node)
         THEN [ok |-> FALSE, tree |-> t, cur |-> cur, del |-> del, chain |-> chain]
         ELSE CollapseClimbMarkAbove(t, node, cur, Append(del, node), prev_span,
                                     Append(chain, t.node[node].label), delim)
    ELSE IF chain = <<>>
    THEN CollapseClimbMarkAbove(t, node, node, del, t.node[node].span, chain, delim)
    ELSE LET t1 == InsertUnaryChain(t, node, chain, delim)
             t2 == AddEdge(t1, node, cur, DefaultEdge)
         IN CollapseClimbMarkAbove(t2, node, node, del, t.node[node].span, <<>>, delim)

RECURSIVE CollapseClimb(_, _, _, _, _, _, _)
\* the Climber loop above one terminal: c is the climber's current node
CollapseClimb(t, c, cur, del, prev_span, chain, delim) ==
    IF ~HasParent(t, c)
    THEN [ok |-> TRUE, tree |-> t, cur |-> cur, del |-> del, chain |-> chain]
    ELSE
    LET node == Parent(t, c) IN
    IF t.node[node].span = prev_span
    THEN IF IsTerminal(t, node)
         THEN [ok |-> FALSE, tree |-> t, cur |-> cur, del |-> del, chain |-> chain]
         ELSE CollapseClimb(t, node, cur, Append(del, node), prev_span,
                            Append(chain, t.node[node].label), delim)
    ELSE IF chain = <<>>
    THEN CollapseClimb(t, node, node, del, t.node[node].span, chain, delim)
    ELSE LET t1 == InsertUnaryChain(t, cur, chain, delim)
             t2 == AddEdge(t1, node, cur, DefaultEdge)
         IN CollapseClimb(t2, node, node, del, t.node[node].span, <<>>, delim)

\* one terminal's pass without the final `for del_node in del` loop
CollapseTerminalKeepNodes(t, terminal, delim) ==
    LET r == CollapseClimb(t, terminal, terminal, <<>>, t.node[terminal].span, <<>>, delim) IN
    IF ~r.ok THEN [ok |-> FALSE, tree |-> r.tree]
    ELSE [ok |-> TRUE,
          tree |-> IF r.chain # <<>>
                   THEN InsertUnaryChain(SetRoot(r.tree, r.cur), r.cur, r.chain, delim)
                   ELSE r.tree]

CollapseTerminal(t, terminal, delim) ==
    LET r == CollapseClimb(t, terminal, terminal, <<>>, t.node[terminal].span, <<>>, delim) IN
    IF ~r.ok THEN [ok |-> FALSE, tree |-> r.tree]
    ELSE LET t1 == IF r.chain # <<>>
                   THEN InsertUnaryChain(SetRoot(r.tree, r.cur), r.cur, r.chain, delim)
                   ELSE r.tree
         IN [ok |-> TRUE, tree |-> RemoveNodes(t1, r.del)]

RECURSIVE CollapseLoop(_, _, _)
CollapseLoop(t, terms, delim) ==
    IF terms = <<>> THEN [ok |-> TRUE, tree |-> t]
    ELSE LET r == CollapseTerminal(t, Head(terms), delim) IN
         IF ~r.ok THEN r ELSE CollapseLoop(r.tree, Tail(terms), delim)

CollapseUnaryChains(t, delim) == CollapseLoop(t, Terminals(t), delim)

----------------------------------------------------------------------------
(* TreeOps::restore_unary_chains *)

RECURSIVE BuildChain(_, _, _, _)
\* one new non-terminal per label, each above the previous one
BuildChain(t, labels, cur, sp) ==
    IF labels = <<>> THEN [tree |-> t, cur |-> cur]
    ELSE LET new == NewIndex(t)
             t1 == AddNode(t, new, NewNonTerminal(Head(labels), sp))
             t2 == AddEdge(t1, new, cur, DefaultEdge)
         IN BuildChain(t2, Tail(labels), new, sp)

\* restore with the new chain nodes given a one-position span instead of a
\* clone of the span of the node below
RestoreNodeUnitSpan(t, node, delim) ==
    LET vec == FeaturesMut(t.node[node])
        val == FeaturesGet(vec, UNARY_CHAIN)
        t0 == SetFeatures(t, node, FeaturesRemove(vec, UNARY_CHAIN))
    IN
    IF ~val.some THEN t0
    ELSE LET hasParent == HasParent(t0, node)
             handle == Parent(t0, node)
             t1 == IF hasParent THEN RemoveEdge(t0, ParentEdge(t0, node)) ELSE t0
             b == BuildChain(t1, Split(val.val, delim), node,
                             Continuous(t1.node[node].span.lower, t1.node[node].span.lower + 1))
         IN IF hasParent
            THEN AddEdge(b.tree, handle, b.cur, DefaultEdge)
            ELSE SetRoot(b.tree, b.cur)

RestoreNode(t, node, delim) ==
    LET vec == FeaturesMut(t.node[node])
        val == FeaturesGet(vec, UNARY_CHAIN)
        t0 == SetFeatures(t, node, FeaturesRemove(vec, UNARY_CHAIN))
    IN
    IF ~val.some THEN t0
    ELSE LET hasParent == HasParent(t0, node)
             handle == Parent(t0, node)
             t1 == IF hasParent THEN RemoveEdge(t0, ParentEdge(t0, node)) ELSE t0
             b == BuildChain(t1, Split(val.val, delim), node, t1.node[node].span)
         IN IF hasParent
            THEN AddEdge(b.tree, handle, b.cur, DefaultEdge)
            ELSE SetRoot(b.tree, b.cur)

RECURSIVE RestoreLoop(_, _, _)
RestoreLoop(t, nodes, delim) ==
    IF nodes = <<>> THEN t
    ELSE RestoreLoop(RestoreNode(t, Head(nodes), delim), Tail(nodes), delim)

RestoreUnaryChains(t, delim) ==
    [ok |-> TRUE, tree |-> RestoreLoop(t, SortAscending(t.nodes), delim)]

----------------------------------------------------------------------------
(* Projectivize::projectivize, one loop iteration per step *)

\* DfsPostOrder: the stack, kept as one frame per discovered node with the
\* successors it pushed that are still waiting above it (the graph yields the
\* successors in the order of its edge list, which the tree does not fix:
\* any waiting successor of the top frame may be the next top of the stack)
EmptyDfs == [stack |-> <<>>, discovered |-> {}, finished |-> {}]
Frame(n, pending) == [node |-> n, pending |-> pending]
NoSpan == Continuous(0, 0)

\* the climb that never goes up: the skipped terminal itself is the handle
ProjClimbNoClimb(t, c, handle, reattach_span, sp) ==
    [found |-> HasParent(t, c), handle |-> handle]

RECURSIVE ProjClimb(_, _, _, _, _)
\* the climb that stops only below an ancestor with no skipped position at all
ProjClimbAllOutside(t, c, handle, reattach_span, sp) ==
    IF ~HasParent(t, c) THEN [found |-> FALSE, handle |-> handle]
    ELSE
    LET cand == Parent(t, c) IN
    IF t.node[cand].span # reattach_span
    THEN IF \A covered \in Covered(t.node[cand].span) : covered \notin sp.skips
         THEN [found |-> TRUE, handle |-> handle]
         ELSE ProjClimb(t, cand, cand, t.node[cand].span, sp)
    ELSE ProjClimb(t, cand, cand, reattach_span, sp)

\* the Climber loop above a skipped terminal: c is the climber's current node
ProjClimb(t, c, handle, reattach_span, sp) ==
    IF ~HasParent(t, c) THEN [found |-> FALSE, handle |-> handle]
    ELSE
    LET cand == Parent(t, c) IN
    IF t.node[cand].span # reattach_span
    THEN IF \E covered \in Covered(t.node[cand].span) : covered \notin sp.skips
         THEN [found |-> TRUE, handle |-> handle]
         ELSE ProjClimb(t, cand, cand, t.node[cand].span, sp)
    ELSE ProjClimb(t, cand, cand, reattach_span, sp)

\* remove the handle's incoming edge and hang the handle below the candidate
Reattach(t, point, handle) ==
    LET e == ParentEdge(t, handle) IN
    UpdateEdge(RemoveEdge(t, e), point, handle, e.w)

SetSpan(t, n, sp) == [t EXCEPT !.node[n].span = sp]

SetProjectivity(t, p) == [t EXCEPT !.projectivity = p]

----------------------------------------------------------------------------
(* Inputs of the calls *)

LabelA == <<"A">>
LabelAB == <<"A", "_", "B">>
NTLabels == {LabelA, LabelAB}
InsertionLabel == <<"U">>

TagSets == {[positive |-> TRUE, set |-> {LabelA}], [positive |-> FALSE, set |-> {LabelA}]}
Delims == {<<"_">>, <<"-">>}
FeatureNames == {<<"p">>}

\* n part-of-speech tags, neighbours differing
TagSeq(n) == [i \in 1..n |-> IF i % 2 = 1 THEN <<"P">> ELSE <<"Q">>]

NoCall == [op |-> "none", ok |-> TRUE, tags |-> <<>>, ts |-> [positive |-> TRUE, set |-> {}],
           lab |-> <<>>, delim |-> <<>>, fname |-> <<>>]

Call(op, ok) == [NoCall EXCEPT !.op = op, !.ok = ok]

----------------------------------------------------------------------------
(* Initial states *)

InitTree(maxN, maxT, t) ==
    \E nN \in 1..maxN, nT \in 1..maxT :
      \E ntp \in [1..(nN-1) -> 0..(nN-1)], tp \in [0..(nT-1) -> 0..(nN-1)],
         lab \in [0..(nN-1) -> NTLabels] :
        /\ CanonicalShape(nN, nT, ntp, tp)
        /\ t = MkTree(nN, nT, ntp, tp, lab)

InitRest ==
    /\ pc = "idle"
    /\ terminals = <<>>
    /\ dfs = EmptyDfs
    /\ log = <<>>
    /\ apc = NoNode
    /\ span = NoSpan
    /\ skips = {}
    /\ pre = tree
    /\ last = NoCall
    /\ pre2 = tree
    /\ last2 = NoCall
    /\ failed = FALSE
    /\ moves = <<>>
    /\ nops = 0
    /\ feat = NoFeat
    /\ conv = NoConv

Init ==
    /\ InitTree(MaxNonTerminals, MaxTerminals, tree)
    /\ InitRest

----------------------------------------------------------------------------
(* The calls *)

projLocals == <<terminals, dfs, log, apc, span, skips, moves>>

CanCall == pc = "idle" /\ nops < MaxOps

Returned(r, call) ==
    /\ tree' = r.tree
    /\ pre' = tree
    /\ last' = [call EXCEPT !.ok = r.ok]
    /\ pre2' = pre
    /\ last2' = last
    /\ failed' = (failed \/ ~r.ok)
    /\ nops' = nops + 1
    /\ UNCHANGED <<pc, projLocals, ioVars>>

DoAnnotatePos ==
    /\ CanCall
    /\ \E n \in {tree.n_terminals - 1, tree.n_terminals, tree.n_terminals + 1} :
         /\ n >= 0
         /\ Returned(AnnotatePos(tree, TagSeq(n)),
                     [Call("annotate_pos", TRUE) EXCEPT !.tags = TagSeq(n)])

DoAnnotateParentTag ==
    /\ CanCall
    /\ \E f \in FeatureNames :
         Returned(AnnotateParentTag(tree, f),
                  [Call("annotate_parent_tag", TRUE) EXCEPT !.fname = f])

DoInsertIntermediate ==
    /\ CanCall
    /\ \E ts \in TagSets :
         LET r == InsertIntermediate(tree, ts, InsertionLabel) IN
         /\ Cardinality(r.tree.nodes) <= MaxNodes
         /\ Returned(r, [Call("insert_intermediate", TRUE) EXCEPT !.ts = ts,
                                                                 !.lab = InsertionLabel])

DoFilterNonterminals ==
    /\ CanCall
    /\ \E ts \in TagSets :
         Returned(FilterNonterminals(tree, ts),
                  [Call("filter_nonterminals", TRUE) EXCEPT !.ts = ts])

DoCollapseUnaryChains ==
    /\ CanCall
    /\ \E d \in Delims :
         Returned(CollapseUnaryChains(tree, d),
                  [Call("collapse_unary_chains", TRUE) EXCEPT !.delim = d])

DoRestoreUnaryChains ==
    /\ CanCall
    /\ \E d \in Delims :
         LET r == RestoreUnaryChains(tree, d) IN
         /\ Cardinality(r.tree.nodes) <= MaxNodes
         /\ Returned(r, [Call("restore_unary_chains", TRUE) EXCEPT !.delim = d])

\* projectivize() is entered: the guard, the terminals vector, the traversal, the log
\* projectivize() without the guard `if !self.projective()`
ProjectivizeCallUnguarded ==
    /\ CanCall
    /\ pre' = tree
    /\ nops' = nops + 1
    /\ last' = Call("projectivize", TRUE)
    /\ pre2' = pre
    /\ last2' = last
    /\ UNCHANGED <<failed, ioVars>>
    /\ pc' = "dfs"
    /\ terminals' = Terminals(tree)
    /\ dfs' = [EmptyDfs EXCEPT !.stack = <<Frame(NoNode, {tree.root})>>]
    /\ log' = [i \in 0..(Len(Terminals(tree)) - 1) |-> NoClaim]
    /\ moves' = <<>>
    /\ UNCHANGED <<tree, apc, span, skips>>

ProjectivizeCall ==
    /\ CanCall
    /\ pre' = tree
    /\ nops' = nops + 1
    /\ last' = Call("projectivize", TRUE)
    /\ pre2' = pre
    /\ last2' = last
    /\ UNCHANGED <<failed, ioVars>>
    /\ IF tree.projectivity = "Projective"
       THEN UNCHANGED <<tree, pc, projLocals>>
       ELSE /\ pc' = "dfs"
            /\ terminals' = Terminals(tree)
            /\ dfs' = [EmptyDfs EXCEPT !.stack = <<Frame(NoNode, {tree.root})>>]
            /\ log' = [i \in 0..(Len(Terminals(tree)) - 1) |-> NoClaim]
            /\ moves' = <<>>
            /\ UNCHANGED <<tree, apc, span, skips>>

Top(st) == st[Len(st)]
Pop(st) == SubSeq(st, 1, Len(st) - 1)

\* the loop body for the node the traversal returns: everything but a
\* discontinuous non-terminal is skipped
Visit(nx) ==
    IF IsNonTerminal(tree, nx) /\ IsDiscontinuous(tree.node[nx].span)
    THEN /\ apc' = nx
         /\ span' = tree.node[nx].span
         /\ skips' = tree.node[nx].span.skips
         /\ pc' = "skips"
    ELSE UNCHANGED <<apc, span, skips, pc>>

\* DfsPostOrder::next, the top of the stack is met for the first time: it is
\* marked discovered and its undiscovered successors are pushed
DfsDiscover ==
    /\ pc = "dfs"
    /\ dfs.stack # <<>>
    /\ \E nx \in Top(dfs.stack).pending :
         LET rest == [dfs.stack EXCEPT ![Len(dfs.stack)].pending = @ \ {nx}] IN
         IF nx \notin dfs.discovered
         THEN /\ dfs' = [dfs EXCEPT
                    !.discovered = @ \cup {nx},
                    !.stack = Append(rest,
                                Frame(nx, Children(tree, nx) \ (dfs.discovered \cup {nx})))]
              /\ UNCHANGED <<apc, span, skips, pc>>
         ELSE /\ dfs' = [dfs EXCEPT !.stack = rest, !.finished = @ \cup {nx}]
              /\ IF nx \notin dfs.finished THEN Visit(nx)
                 ELSE UNCHANGED <<apc, span, skips, pc>>
    /\ UNCHANGED <<tree, terminals, log, pre, last, pre2, last2, failed, moves, nops, ioVars>>

\* DfsPostOrder::next, the top of the stack was discovered before and all it
\* pushed is gone: it is popped, marked finished and returned to the loop body
DfsPop ==
    /\ pc = "dfs"
    /\ dfs.stack # <<>>
    /\ Top(dfs.stack).pending = {}
    /\ LET nx == Top(dfs.stack).node IN
       /\ dfs' = [dfs EXCEPT !.stack = Pop(@),
                             !.finished = IF nx = NoNode THEN @ ELSE @ \cup {nx}]
       /\ IF nx # NoNode /\ nx \notin dfs.finished THEN Visit(nx)
          ELSE UNCHANGED <<apc, span, skips, pc>>
    /\ UNCHANGED <<tree, terminals, log, pre, last, pre2, last2, failed, moves, nops, ioVars>>

\* the claim check without its comparison: no recorded claim ever blocks
AlreadyClaimedNever(claimed, lower) == FALSE

\* `if let Some(claimed) = log[skipped] { if claimed >= span.lower() {`
AlreadyClaimed(claimed, lower) == claimed # NoClaim /\ claimed >= lower

\* one iteration of `while let Some(&skipped) = skips.iter().next()`
SkipStep ==
    /\ pc = "skips"
    /\ \E skipped \in skips :
         IF skipped \notin DOMAIN log
         THEN /\ pc' = "panic"
              /\ UNCHANGED <<tree, log, skips, moves>>
         ELSE IF AlreadyClaimed(log[skipped], span.lower)
         THEN /\ skips' = skips \ {skipped}
              /\ UNCHANGED <<tree, log, pc, moves>>
         ELSE LET start == terminals[skipped + 1]
                  c == ProjClimb(tree, start, start, tree.node[start].span, span)
                  cov == Covered(tree.node[c.handle].span)
              IN IF ~c.found
                 THEN UNCHANGED <<tree, log, skips, pc, moves>>
                 ELSE IF ~(cov \subseteq DOMAIN log)
                 THEN /\ pc' = "panic"
                      /\ UNCHANGED <<tree, log, skips, moves>>
                 ELSE /\ skips' = skips \ cov
                      /\ log' = [i \in DOMAIN log |-> IF i \in cov THEN span.lower ELSE log[i]]
                      /\ tree' = Reattach(tree, apc, c.handle)
                      /\ moves' = Append(moves, [skipped |-> skipped, handle |-> c.handle,
                                                 from |-> Parent(tree, c.handle), to |-> apc,
                                                 claim |-> log[skipped]])
                      /\ UNCHANGED pc
    /\ UNCHANGED <<terminals, dfs, apc, span, pre, last, pre2, last2, failed, nops, ioVars>>

\* the skip set is empty: the candidate's span is rewritten as continuous
FinishNode ==
    /\ pc = "skips"
    /\ skips = {}
    /\ tree' = SetSpan(tree, apc, Continuous(span.lower, span.upper))
    /\ pc' = "dfs"
    /\ UNCHANGED <<terminals, dfs, log, apc, span, skips, pre, last, pre2, last2, failed, moves, nops,
                 ioVars>>

\* the traversal is exhausted: the flag is set and projectivize() returns
ProjectivizeReturn ==
    /\ pc = "dfs"
    /\ dfs.stack = <<>>
    /\ tree' = SetProjectivity(tree, "Projective")
    /\ pc' = "idle"
    /\ terminals' = <<>>
    /\ dfs' = EmptyDfs
    /\ log' = <<>>
    /\ apc' = NoNode
    /\ span' = NoSpan
    /\ skips' = {}
    /\ UNCHANGED <<pre, last, pre2, last2, failed, moves, nops, ioVars>>

Next ==
    \/ DoAnnotatePos
    \/ DoAnnotateParentTag
    \/ DoInsertIntermediate
    \/ DoFilterNonterminals
    \/ DoCollapseUnaryChains
    \/ DoRestoreUnaryChains
    \/ ProjectivizeCall
    \/ DfsDiscover
    \/ DfsPop
    \/ SkipStep
    \/ FinishNode
    \/ ProjectivizeReturn

Spec == Init /\ [][Next]_vars

\* the four structural operations alone
NextSurgery ==
    \/ DoInsertIntermediate
    \/ DoFilterNonterminals
    \/ DoCollapseUnaryChains
    \/ DoRestoreUnaryChains

SpecSurgery == Init /\ [][NextSurgery]_vars

----------------------------------------------------------------------------
(* projectivize() alone, on larger trees with a single label *)

InitProj ==
    /\ \E nN \in 1..MaxProjNonTerminals, nT \in 1..MaxProjTerminals :
         \E ntp \in [1..(nN-1) -> 0..(nN-1)], tp \in [0..(nT-1) -> 0..(nN-1)] :
           /\ CanonicalShape(nN, nT, ntp, tp)
           /\ tree = MkTree(nN, nT, ntp, tp, [i \in 0..(nN-1) |-> LabelA])
    /\ InitRest

\* projectivize() alone, on trees without unary non-terminals
NoUnary(nN, nT, ntp, tp) ==
    \A i \in 0..(nN-1) :
        Cardinality({j \in 1..(nN-1) : ntp[j] = i}) + Cardinality({p \in 0..(nT-1) : tp[p] = i}) >= 2

InitBranching ==
    /\ \E nN \in 1..MaxBranchingNonTerminals, nT \in 1..MaxBranchingTerminals :
         \E ntp \in [1..(nN-1) -> 0..(nN-1)], tp \in [0..(nT-1) -> 0..(nN-1)] :
           /\ CanonicalShape(nN, nT, ntp, tp)
           /\ NoUnary(nN, nT, ntp, tp)
           /\ tree = MkTree(nN, nT, ntp, tp, [i \in 0..(nN-1) |-> LabelA])
    /\ InitRest

NextProj ==
    \/ ProjectivizeCall
    \/ DfsDiscover
    \/ DfsPop
    \/ SkipStep
    \/ FinishNode
    \/ ProjectivizeReturn

SpecProj == InitProj /\ [][NextProj]_vars

SpecBranching == InitBranching /\ [][NextProj]_vars

\* feature bags a reader may have put on a terminal
ValueX == <<"X">>
KeyP == <<"p">>
KeyQ == <<"q">>
FeatureBags ==
    {NoFeatures,
     SomeFeatures(<<[k |-> KeyP, v |-> SomeVal(ValueX)]>>),
     SomeFeatures(<<[k |-> KeyQ, v |-> NoVal], [k |-> KeyP, v |-> SomeVal(ValueX)]>>),
     SomeFeatures(<<[k |-> KeyP, v |-> NoVal], [k |-> KeyQ, v |-> SomeVal(ValueX)]>>)}

\* annotate_parent_tag on trees whose terminals already carry features
WithFeatures(t, bags) ==
    [t EXCEPT !.node = [n \in t.nodes |->
        IF IsTerminal(t, n)
        THEN [t.node[n] EXCEPT !.features = bags[t.node[n].span.lower]]
        ELSE t.node[n]]]

InitFeatures ==
    /\ \E nN \in 1..MaxNonTerminals, nT \in 1..MaxTerminals :
         \E ntp \in [1..(nN-1) -> 0..(nN-1)], tp \in [0..(nT-1) -> 0..(nN-1)],
            lab \in [0..(nN-1) -> NTLabels], bags \in [0..(nT-1) -> FeatureBags] :
           /\ CanonicalShape(nN, nT, ntp, tp)
           /\ tree = WithFeatures(MkTree(nN, nT, ntp, tp, lab), bags)
    /\ InitRest

NextFeatures == DoAnnotateParentTag

SpecFeatures == InitFeatures /\ [][NextFeatures]_vars

\* Features::from and to_string on every string of up to MaxLen characters
MaxLen == 4
Chars == {"u", "c", "X", ":", "|"}
Strings == UNION {[1..n -> Chars] : n \in 0..MaxLen}

treeVars == <<tree, pc, terminals, dfs, log, apc, span, skips, pre, last, pre2, last2, failed,
              moves, nops>>

InitFeatureString ==
    /\ tree = MkTree(1, 1, <<>>, [p \in {0} |-> 0], [i \in {0} |-> LabelA])
    /\ pc = "idle"
    /\ terminals = <<>>
    /\ dfs = EmptyDfs
    /\ log = <<>>
    /\ apc = NoNode
    /\ span = NoSpan
    /\ skips = {}
    /\ pre = tree
    /\ last = NoCall
    /\ pre2 = tree
    /\ last2 = NoCall
    /\ failed = FALSE
    /\ moves = <<>>
    /\ nops = 0
    /\ \E s \in Strings : feat = [NoFeat EXCEPT !.stage = "input", !.input = s]
    /\ conv = NoConv

DoFeaturesFrom ==
    /\ feat.stage = "input"
    /\ feat' = [feat EXCEPT !.stage = "parsed", !.parsed = FeaturesFrom(feat.input)]
    /\ UNCHANGED <<treeVars, conv>>

DoFeaturesToString ==
    /\ feat.stage = "parsed"
    /\ feat' = [feat EXCEPT !.stage = "printed", !.printed = FeaturesToString(feat.parsed)]
    /\ UNCHANGED <<treeVars, conv>>

NextFeatureString ==
    \/ DoFeaturesFrom
    \/ DoFeaturesToString

SpecFeatureString == InitFeatureString /\ [][NextFeatureString]_vars

----------------------------------------------------------------------------
(* io/conllx.rs: the two conversions of a tree into a CoNLL-X sentence *)

EmptyForm == 0
EmptyLabel == <<>>

\* the setters of Terminal: store the new value, return the old one
SetForm(nd, new) == [old |-> nd.form, node |-> [nd EXCEPT !.form = new]]
SetLemma(nd, new) == [old |-> nd.lemma, node |-> [nd EXCEPT !.lemma = new]]
SetLabel(nd, new) == [old |-> nd.label, node |-> [nd EXCEPT !.label = new]]
SetTerminalFeatures(nd, new) == [old |-> nd.features, node |-> [nd EXCEPT !.features = new]]

\* Token::new(form): only the form is set
NewToken(form) == [form |-> form, lemma |-> NoVal, pos |-> NoVal, features |-> NoVal]

\* Features::from_string(features.to_string()) of the conllx crate
TokenFeatures(fs) ==
    IF fs.some THEN SomeVal(FeaturesToString(fs.vec)) ELSE NoVal

RECURSIVE InsertByLower(_, _)
\* sort_by on the position, stable
InsertByLower(sorted, pair) ==
    IF sorted = <<>> THEN <<pair>>
    ELSE IF sorted[Len(sorted)].lower <= pair.lower THEN Append(sorted, pair)
    ELSE Append(InsertByLower(SubSeq(sorted, 1, Len(sorted) - 1), pair), sorted[Len(sorted)])

RECURSIVE SortByLower(_)
SortByLower(pairs) ==
    IF pairs = <<>> THEN <<>>
    ELSE InsertByLower(SortByLower(SubSeq(pairs, 1, Len(pairs) - 1)), pairs[Len(pairs)])

\* Sentence::new() and one push per token
SentenceOf(pairs) ==
    LET sorted == SortByLower(pairs) IN [i \in 1..Len(sorted) |-> sorted[i].token]

\* the token to_conllx builds from a borrowed terminal
BorrowedToken(nd) ==
    [NewToken(nd.form) EXCEPT !.lemma = nd.lemma,
                              !.pos = SomeVal(nd.label),
                              !.features = TokenFeatures(nd.features)]

\* ToConllx::to_conllx
ToConllx(t) ==
    LET terms == SelectSeq(Terminals(t), LAMBDA x : IsTerminal(t, x)) IN
    SentenceOf([i \in 1..Len(terms) |->
                  [token |-> BorrowedToken(t.node[terms[i]]),
                   lower |-> t.node[terms[i]].span.lower]])

\* missing `token.set_lemma(lemma)`
OwnedTokenNoLemma(nd) ==
    LET f == SetForm(nd, EmptyForm)
        l == SetLemma(f.node, NoVal)
        p == SetLabel(l.node, EmptyLabel)
        m == SetTerminalFeatures(p.node, NoFeatures)
    IN [node |-> m.node,
        token |-> [NewToken(f.old) EXCEPT !.pos = SomeVal(p.old),
                                          !.features = TokenFeatures(m.old)]]

\* one iteration of the loop of From<Tree>: the terminal is emptied, the
\* token takes what the setters return
OwnedToken(nd) ==
    LET f == SetForm(nd, EmptyForm)
        l == SetLemma(f.node, NoVal)
        p == SetLabel(l.node, EmptyLabel)
        m == SetTerminalFeatures(p.node, NoFeatures)
    IN [node |-> m.node,
        token |-> [NewToken(f.old) EXCEPT !.lemma = l.old,
                                          !.pos = SomeVal(p.old),
                                          !.features = TokenFeatures(m.old)]]

RECURSIVE IntoSentenceLoop(_, _, _)
IntoSentenceLoop(t, terms, pairs) ==
    IF terms = <<>> THEN [tree |-> t, pairs |-> pairs]
    ELSE LET r == OwnedToken(t.node[Head(terms)])
             t1 == [t EXCEPT !.node[Head(terms)] = r.node]
         IN IntoSentenceLoop(t1, Tail(terms),
                Append(pairs, [token |-> r.token, lower |-> r.node.span.lower]))

\* Sentence::from(tree)
IntoSentence(t) ==
    LET r == IntoSentenceLoop(t, Terminals(t), <<>>) IN
    [tree |-> r.tree, sentence |-> SentenceOf(r.pairs)]

LemmaL == <<"l">>
Lemmas == {NoVal, SomeVal(LemmaL)}

WithLemmas(t, lemmas) ==
    [t EXCEPT !.node = [n \in t.nodes |->
        IF IsTerminal(t, n)
        THEN [t.node[n] EXCEPT !.lemma = lemmas[t.node[n].span.lower]]
        ELSE t.node[n]]]

InitConllx ==
    /\ \E nN \in 1..MaxNonTerminals, nT \in 1..MaxTerminals :
         \E ntp \in [1..(nN-1) -> 0..(nN-1)], tp \in [0..(nT-1) -> 0..(nN-1)],
            bags \in [0..(nT-1) -> FeatureBags], lemmas \in [0..(nT-1) -> Lemmas] :
           /\ CanonicalShape(nN, nT, ntp, tp)
           /\ tree = WithLemmas(WithFeatures(
                        MkTree(nN, nT, ntp, tp, [i \in 0..(nN-1) |-> LabelA]), bags), lemmas)
    /\ InitRest

DoToConllx ==
    /\ conv.calls = {}
    /\ conv' = [conv EXCEPT !.borrowed = ToConllx(tree), !.calls = @ \cup {"to_conllx"}]
    /\ UNCHANGED <<treeVars, feat>>

\* the tree is moved into the call and dropped by it
DoIntoSentence ==
    /\ "from" \notin conv.calls
    /\ LET r == IntoSentence(tree) IN
       /\ conv' = [conv EXCEPT !.owned = r.sentence, !.calls = @ \cup {"from"}]
       /\ tree' = r.tree
       /\ pre' = tree
    /\ UNCHANGED <<pc, terminals, dfs, log, apc, span, skips, last, pre2, last2, failed,
                   moves, nops, feat>>

NextConllx ==
    \/ DoToConllx
    \/ DoIntoSentence

SpecConllx == InitConllx /\ [][NextConllx]_vars

\* all seven operations on the larger single-label trees
SpecSeven == InitProj /\ [][Next]_vars

----------------------------------------------------------------------------
(* The invariants I1-I4 of a tree *)

RECURSIVE ReachFrom(_, _)
\* the nodes reachable from the set S along edges
ReachFrom(t, S) ==
    LET T == S \cup {e.dst : e \in {f \in t.edges : f.src \in S}} IN
    IF T = S THEN S ELSE ReachFrom(t, T)

Descendants(t, n) == ReachFrom(t, {n})

\* the terminal positions below (or at) node n
PositionsBelow(t, n) ==
    {t.node[m].span.lower : m \in {x \in Descendants(t, n) : IsTerminal(t, x)}}

\* I1: root without incoming edge, one incoming edge for every other node,
\* every node reachable from the root (hence no cycle)
RootedTree(t) ==
    /\ t.root \in t.nodes
    /\ \A e \in t.edges : e.src \in t.nodes /\ e.dst \in t.nodes
    /\ Incoming(t, t.root) = {}
    /\ \A n \in t.nodes \ {t.root} : Cardinality(Incoming(t, n)) = 1
    /\ \A n \in t.nodes : n \notin ReachFrom(t, Children(t, n))
    /\ ReachFrom(t, {t.root}) = t.nodes

\* I2: terminals are leaves, non-terminals have a child
LeavesAndInner(t) ==
    \A n \in t.nodes :
        IF IsTerminal(t, n) THEN Children(t, n) = {} ELSE Children(t, n) # {}

\* I3: a non-terminal's span is the union of its children's spans
SpanOfChildren(t) ==
    \A n \in t.nodes :
        IsNonTerminal(t, n) =>
            Covered(t.node[n].span) = UNION {Covered(t.node[c].span) : c \in Children(t, n)}

\* I4: terminal positions are exactly 0..n_terminals-1, without duplicates
TerminalNumbering(t) ==
    /\ Cardinality(TerminalNodes(t)) = t.n_terminals
    /\ \A n \in TerminalNodes(t) : t.node[n].span = Continuous(t.node[n].span.lower,
                                                               t.node[n].span.lower + 1)
    /\ {t.node[n].span.lower : n \in TerminalNodes(t)} = 0..(t.n_terminals - 1)
    /\ \A m, n \in TerminalNodes(t) : t.node[m].span.lower = t.node[n].span.lower => m = n

WellFormed(t) ==
    RootedTree(t) /\ LeavesAndInner(t) /\ SpanOfChildren(t) /\ TerminalNumbering(t)

AllSpansContinuous(t) ==
    \A n \in t.nodes : IsNonTerminal(t, n) => ~IsDiscontinuous(t.node[n].span)

ProjectivizeReturned == pc = "idle" /\ last.op = "projectivize"

----------------------------------------------------------------------------
(* C1: after projectivize() on a tree satisfying I1-I4 whose flag is       *)
(* Nonprojective, every non-terminal has a continuous span and the flag is *)
(* Projective; and whenever the flag is Projective no non-terminal span is *)
(* discontinuous.                                                          *)
C1_ProjectivizeMakesSpansContinuous ==
    /\ (ProjectivizeReturned /\ WellFormed(pre) /\ pre.projectivity = "Nonprojective")
          => (AllSpansContinuous(tree) /\ tree.projectivity = "Projective")
    /\ (pc = "idle" /\ tree.projectivity = "Projective") => AllSpansContinuous(tree)

\* C2: after projectivize() on a tree satisfying I1-I4, every non-terminal's
\* stored span is exactly the set of terminal positions of its descendants.
C2_ProjectivizeSpansAreDescendants ==
    (ProjectivizeReturned /\ WellFormed(pre))
        => \A n \in tree.nodes :
              IsNonTerminal(tree, n) => Covered(tree.node[n].span) = PositionsBelow(tree, n)


CallReturned == pc = "idle" /\ nops > 0

\* C3: after any sequence of successful insert_intermediate,
\* filter_nonterminals, collapse_unary_chains and restore_unary_chains calls
\* on a tree satisfying I1-I4, every non-terminal's span is the union of its
\* children's spans and every non-terminal has at least one child.
C3_SurgeryKeepsSpansOfChildren ==
    (pc = "idle" /\ ~failed)
        => /\ SpanOfChildren(tree)
           /\ \A n \in tree.nodes : IsNonTerminal(tree, n) => Children(tree, n) # {}

\* a filter that removed a node, then an insertion that put two terminals
\* below one new node
C3_Witness ==
    /\ pc = "idle" /\ ~failed /\ nops >= 2
    /\ last2.op = "filter_nonterminals" /\ pre.nodes # pre2.nodes
    /\ last.op = "insert_intermediate"
    /\ \E m \in tree.nodes \ pre.nodes : Cardinality(Children(tree, m)) >= 2

\* C4: after any sequence of successful calls of the seven operations on a
\* tree satisfying I1-I4 the graph is a rooted tree: no edge into the root,
\* exactly one edge into every other node, no cycle, every node reachable
\* from the root.
C4_RootedTree ==
    (pc = "idle" /\ ~failed) => RootedTree(tree)

TerminalView(t) ==
    {[node |-> n, position |-> t.node[n].span, form |-> t.node[n].form] :
        n \in TerminalNodes(t)}

StructuralCalls ==
    {"filter_nonterminals", "insert_intermediate", "collapse_unary_chains",
     "restore_unary_chains", "projectivize"}

\* C5: filter_nonterminals, insert_intermediate, collapse_unary_chains,
\* restore_unary_chains and projectivize leave the terminal nodes, their
\* positions and forms and the terminal count unchanged, so the positions
\* stay exactly 0..n_terminals-1 without duplicates.
C5_TerminalsUnchanged ==
    /\ (CallReturned /\ last.op \in StructuralCalls)
          => /\ TerminalView(tree) = TerminalView(pre)
             /\ tree.n_terminals = pre.n_terminals
    /\ pc = "idle" => TerminalNumbering(tree)

\* a filter that removed a non-terminal above a terminal
C5_Witness ==
    /\ CallReturned /\ last.op = "filter_nonterminals" /\ last.ok
    /\ \E x \in TerminalNodes(pre) : Parent(pre, x) \notin tree.nodes


ProperAncestors(t, n) == {a \in t.nodes : a # n /\ n \in Descendants(t, a)}

Position(t, n) == t.node[n].span.lower

\* the nearest proper ancestor of n in t that is the root or accepted by ts
NearestAccepted(t, n, ts) ==
    LET acc == {a \in ProperAncestors(t, n) : a = t.root \/ Matches(ts, t.node[a].label)}
    IN CHOOSE a \in acc : \A b \in acc : b = a \/ b \in ProperAncestors(t, a)

FilterReturned ==
    /\ CallReturned /\ last.op = "filter_nonterminals"
    /\ RootedTree(pre) /\ LeavesAndInner(pre) /\ SpanOfChildren(pre)

\* C6: after filter_nonterminals(tag_set) on a tree satisfying I1-I3 the root
\* is unchanged, exactly the non-root non-terminals that tag_set rejects are
\* gone, and every surviving non-root node hangs, by an edge with its original
\* label, below its nearest original proper ancestor that is the root or
\* accepted by tag_set.
C6_FilterReattachesToNearestAccepted ==
    FilterReturned =>
        /\ tree.root = pre.root
        /\ tree.nodes = {n \in pre.nodes : \/ n = pre.root
                                           \/ IsTerminal(pre, n)
                                           \/ Matches(last.ts, pre.node[n].label)}
        /\ \A n \in tree.nodes \ {tree.root} :
              Incoming(tree, n) = {[src |-> NearestAccepted(pre, n, last.ts), dst |-> n,
                                    w |-> ParentEdge(pre, n).w]}

\* a survivor that skipped a removed parent and now hangs below an accepted
\* non-terminal that is not the root
C6_Witness ==
    /\ FilterReturned /\ last.ok
    /\ \E n \in tree.nodes \ {tree.root} :
          /\ Parent(pre, n) \notin tree.nodes
          /\ Parent(tree, n) # tree.root

InsertReturned ==
    /\ CallReturned /\ last.op = "insert_intermediate" /\ last.ok
    /\ WellFormed(pre)

\* the terminal's original parent is rejected by the tag set of the last call
Rejected(x) == ~Matches(last.ts, pre.node[Parent(pre, x)].label)

\* C7: after insert_intermediate(tag_set, label) on a tree satisfying I1-I4 a
\* terminal whose original parent is accepted is untouched, any other terminal
\* hangs below a new non-terminal labelled `label` that is a child of the
\* terminal's original parent, two such terminals share the new node exactly
\* when all terminals at the positions from the one to the other have the
\* same rejected original parent, and the new node's span is exactly the
\* positions of the terminals below it.
C7_InsertIntermediateRuns ==
    InsertReturned =>
        LET T == TerminalNodes(pre) IN
        /\ \A x \in T : ~Rejected(x) =>
              /\ Incoming(tree, x) = Incoming(pre, x)
              /\ tree.node[x] = pre.node[x]
        /\ \A x \in T : Rejected(x) =>
              LET m == Parent(tree, x) IN
              /\ Cardinality(Incoming(tree, x)) = 1
              /\ m \in tree.nodes \ pre.nodes
              /\ IsNonTerminal(tree, m)
              /\ tree.node[m].label = last.lab
              /\ Cardinality(Incoming(tree, m)) = 1
              /\ Parent(tree, m) = Parent(pre, x)
              /\ Covered(tree.node[m].span) =
                    {Position(pre, z) : z \in {y \in T : Parent(tree, y) = m}}
        /\ \A x, y \in T :
              (Rejected(x) /\ Rejected(y) /\ Position(pre, x) <= Position(pre, y)) =>
                 (Parent(tree, x) = Parent(tree, y)
                    <=> \A z \in T :
                          (Position(pre, x) <= Position(pre, z)
                             /\ Position(pre, z) <= Position(pre, y))
                            => Parent(pre, z) = Parent(pre, x))

\* two terminals of one rejected parent, separated by a terminal of another
\* parent, end up below two different new nodes
C7_Witness ==
    /\ InsertReturned
    /\ \E x, y \in TerminalNodes(pre) :
          /\ Rejected(x) /\ Rejected(y)
          /\ Parent(pre, x) = Parent(pre, y)
          /\ Parent(tree, x) # Parent(tree, y)

\* C8: annotate_pos(tags) returns Ok exactly when there are as many tags as
\* terminals; on Ok the terminal at position i is labelled with the i-th tag
\* and nothing but terminal labels has changed; fewer or more tags give an
\* error.
C8_AnnotatePos ==
    (CallReturned /\ last.op = "annotate_pos") =>
        /\ last.ok <=> (Len(last.tags) = Cardinality(TerminalNodes(pre)))
        /\ last.ok =>
              /\ \A x \in TerminalNodes(tree) :
                    tree.node[x].label = last.tags[Position(tree, x) + 1]
              /\ tree.nodes = pre.nodes
              /\ [tree EXCEPT !.node = pre.node] = pre
              /\ \A n \in tree.nodes :
                    /\ [tree.node[n] EXCEPT !.label = pre.node[n].label] = pre.node[n]
                    /\ IsNonTerminal(pre, n) => tree.node[n].label = pre.node[n].label

\* a successful call that relabelled at least two terminals
C8_Witness ==
    /\ CallReturned /\ last.op = "annotate_pos" /\ last.ok
    /\ Len(last.tags) >= 2
    /\ \A x \in TerminalNodes(tree) : tree.node[x].label # pre.node[x].label

Depth(t, n) == Cardinality(ProperAncestors(t, n))

\* a tree up to the numbering of its nodes: every node with its kind, its
\* form and the labels and spans on the path from the root down to it
Shape(t) ==
    {[kind |-> t.node[n].kind, form |-> t.node[n].form,
      path |-> {[depth |-> Depth(t, a), label |-> t.node[a].label, span |-> t.node[a].span]
                   : a \in ProperAncestors(t, n) \cup {n}}] : n \in t.nodes}

SameTree(a, b) ==
    /\ RootedTree(a) /\ RootedTree(b)
    /\ a.node[a.root].label = b.node[b.root].label
    /\ Cardinality(a.nodes) = Cardinality(b.nodes)
    /\ Shape(a) = Shape(b)

\* what the PTB reader builds: I1-I4, continuous spans, no features
PtbTree(t) ==
    /\ WellFormed(t) /\ AllSpansContinuous(t)
    /\ t.projectivity = "Projective"
    /\ \A n \in t.nodes : t.node[n].features = NoFeatures

RoundTripReturned ==
    /\ CallReturned /\ nops >= 2
    /\ last2.op = "collapse_unary_chains" /\ last2.ok
    /\ last.op = "restore_unary_chains" /\ last.delim = last2.delim
    /\ PtbTree(pre2)

\* C9: for every tree the PTB reader builds and every delimiter,
\* collapse_unary_chains(d) followed by restore_unary_chains(d) gives the
\* original tree back: same root label, same structure, same labels, same
\* spans.
C9_CollapseRestoreRoundTrip == RoundTripReturned => SameTree(tree, pre2)

IsUnary(t, n) == IsNonTerminal(t, n) /\ Cardinality(Children(t, n)) = 1

OnlyChild(t, n) == CHOOSE c \in Children(t, n) : TRUE

\* the topmost members of the maximal unary chains of t
ChainTops(t) ==
    {n \in t.nodes : IsUnary(t, n) /\ (n = t.root \/ ~IsUnary(t, Parent(t, n)))}

RECURSIVE PreservedDescendant(_, _)
\* the node directly below the chain that n belongs to
PreservedDescendant(t, n) ==
    IF IsUnary(t, OnlyChild(t, n)) THEN PreservedDescendant(t, OnlyChild(t, n))
    ELSE OnlyChild(t, n)

RECURSIVE ChainLabels(_, _)
\* the labels of the chain from its lowest member up to n
ChainLabels(t, n) ==
    IF IsUnary(t, OnlyChild(t, n))
    THEN Append(ChainLabels(t, OnlyChild(t, n)), t.node[n].label)
    ELSE <<t.node[n].label>>

HoldsChain(t, n, top, delim) ==
    /\ n \in t.nodes
    /\ FeaturesGet(FeaturesMut(t.node[n]), UNARY_CHAIN) = SomeVal(Join(ChainLabels(pre, top), delim))

CollapseReturned ==
    /\ CallReturned /\ last.op = "collapse_unary_chains" /\ last.ok
    /\ WellFormed(pre)

\* the lowest branching node next to the chain below top: the node below the
\* chain when that node branches, else the branching node above the chain
LowestBranching(t, top) ==
    LET d == PreservedDescendant(t, top) IN
    IF IsNonTerminal(t, d) THEN d ELSE Parent(t, top)

\* C10 as stated: for every non-empty unary chain collapse_unary_chains(delim)
\* stores unary_chain = the chain's labels, from the member directly above the
\* preserved descendant up to the topmost, joined by delim, on the lowest
\* branching node; for a chain that reaches the root the feature is on the
\* bridged child, which becomes the root.
C10_ChainOnLowestBranchingNode ==
    CollapseReturned =>
        \A top \in ChainTops(pre) :
            IF top = pre.root
            THEN /\ HoldsChain(tree, PreservedDescendant(pre, top), top, last.delim)
                 /\ tree.root = PreservedDescendant(pre, top)
            ELSE HoldsChain(tree, LowestBranching(pre, top), top, last.delim)

\* C10 amended: the feature is stored on the preserved descendant, the node
\* directly below the chain, be it a terminal or a branching non-terminal;
\* that node takes the chain's place below the chain's former parent, or
\* becomes the root when the chain reached the root, and the chain's members
\* are removed.
C10_ChainOnPreservedDescendant ==
    CollapseReturned =>
        \A top \in ChainTops(pre) :
            LET d == PreservedDescendant(pre, top) IN
            /\ HoldsChain(tree, d, top, last.delim)
            /\ top \notin tree.nodes
            /\ IF top = pre.root
               THEN tree.root = d /\ Incoming(tree, d) = {}
               ELSE Incoming(tree, d) = {[src |-> Parent(pre, top), dst |-> d, w |-> DefaultEdge]}

\* a chain of two non-terminals directly above a terminal and below a
\* branching node has been collapsed
C10_Witness ==
    /\ CollapseReturned
    /\ \E top \in ChainTops(pre) :
          /\ top # pre.root
          /\ IsTerminal(pre, PreservedDescendant(pre, top))
          /\ Len(ChainLabels(pre, top)) >= 2

ProjectivizeTwice ==
    /\ ProjectivizeReturned /\ nops >= 2
    /\ last2.op = "projectivize"

\* C11: projectivize() on a tree whose flag is Projective returns at once and
\* changes nothing (the traversal is never started, the tree with its nodes,
\* edges, spans, edge labels and flag is the one before the call); and for a
\* tree satisfying I1-I4 a second projectivize() leaves the result of the
\* first as it is.
C11_ProjectivizeNoOpAndIdempotent ==
    /\ (last.op = "projectivize" /\ pre.projectivity = "Projective")
          => (pc = "idle" /\ tree = pre)
    /\ (ProjectivizeTwice /\ WellFormed(pre2)) => tree = pre

\* a second call after a first one that moved material
C11_Witness ==
    /\ ProjectivizeTwice /\ WellFormed(pre2)
    /\ pre2.projectivity = "Nonprojective"
    /\ pre.edges # pre2.edges
    /\ tree = pre

ParentTagReturned ==
    /\ CallReturned /\ last.op = "annotate_parent_tag" /\ last.ok
    /\ RootedTree(pre)

KeyCount(vec, key) == Cardinality({i \in 1..Len(vec) : vec[i].k = key})

\* C12: after a successful annotate_parent_tag(f) every terminal's features
\* map f to the label of the terminal's parent; where f was present before,
\* its value is replaced at the same place of the feature order and no
\* further pair with key f appears, where it was not, the pair is appended;
\* nodes, edges, spans and everything else in the tree are unchanged.
C12_AnnotateParentTag ==
    ParentTagReturned =>
        /\ tree.nodes = pre.nodes
        /\ [tree EXCEPT !.node = pre.node] = pre
        /\ \A n \in tree.nodes :
              [tree.node[n] EXCEPT !.features = pre.node[n].features] = pre.node[n]
        /\ \A n \in tree.nodes : IsNonTerminal(pre, n) => tree.node[n] = pre.node[n]
        /\ \A x \in TerminalNodes(pre) :
              LET old == pre.node[x].features.vec
                  new == tree.node[x].features.vec
                  val == SomeVal(pre.node[Parent(pre, x)].label)
                  i == KeyIndex(old, last.fname)
              IN /\ tree.node[x].features.some
                 /\ FeaturesGet(new, last.fname) = val
                 /\ IF i # 0
                    THEN new = [old EXCEPT ![i].v = val]
                    ELSE new = Append(old, [k |-> last.fname, v |-> val])
                 /\ KeyCount(new, last.fname) = IF i # 0 THEN KeyCount(old, last.fname) ELSE 1

\* a terminal that had the key in the second place, after another key, with
\* another value
C12_Witness ==
    /\ ParentTagReturned
    /\ \E x \in TerminalNodes(pre) :
          /\ Len(pre.node[x].features.vec) = 2
          /\ KeyIndex(pre.node[x].features.vec, last.fname) = 2
          /\ tree.node[x].features # pre.node[x].features

\* a field cut at its first colon, the colon in neither piece
PairOfField(f) ==
    LET idx == FindColon(f) IN
    IF idx # 0
    THEN [k |-> SubSeq(f, 1, idx - 1), v |-> SomeVal(SubSeq(f, idx + 1, Len(f)))]
    ELSE [k |-> f, v |-> NoVal]

PairsOfString(s) ==
    LET fields == Split(s, Pipe) IN [i \in 1..Len(fields) |-> PairOfField(fields[i])]

\* C13: Features::from(s) splits s at '|' and each field at its first ':':
\* "k:v" gives (k, Some(v)) with v the text after the colon, a field without
\* colon gives (k, None); hence the Features parsed from "unary_chain:X" are
\* those that insert("unary_chain", Some("X")) builds from an empty bag.
C13_ParseSplitsAtFirstColon ==
    feat.stage \in {"parsed", "printed"} =>
        /\ feat.parsed = PairsOfString(feat.input)
        /\ feat.input = UNARY_CHAIN \o Colon \o ValueX
              => feat.parsed = FeaturesInsert(<<>>, UNARY_CHAIN, SomeVal(ValueX))

NoRepeatedKeys(s) ==
    LET pairs == PairsOfString(s) IN
    \A i, j \in 1..Len(pairs) : pairs[i].k = pairs[j].k => i = j

\* C14: for a feature string s without repeated keys,
\* Features::from(s).to_string() is s again.
C14_FeatureStringRoundTrip ==
    (feat.stage = "printed" /\ NoRepeatedKeys(feat.input)) => feat.printed = feat.input

\* the terminal of t at position i
TerminalAt(t, i) == CHOOSE x \in TerminalNodes(t) : Position(t, x) = i

\* one token per terminal, by ascending position: form, lemma, label as
\* part of speech, serialized features
TokensOf(t) ==
    [i \in 1..Cardinality(TerminalNodes(t)) |->
        LET nd == t.node[TerminalAt(t, i - 1)] IN
        [form |-> nd.form, lemma |-> nd.lemma, pos |-> SomeVal(nd.label),
         features |-> IF nd.features.some
                      THEN SomeVal(FeaturesToString(nd.features.vec)) ELSE NoVal]]

\* C15: for a tree satisfying I1-I4, to_conllx() and Sentence::from(tree)
\* give the same sentence: one token per terminal in ascending position, with
\* the terminal's form, lemma, label as part of speech and serialized
\* features; to_conllx() leaves the tree as it is.
C15_ConllxConversionsAgree ==
    /\ ("to_conllx" \in conv.calls /\ "from" \notin conv.calls /\ WellFormed(tree))
          => (conv.borrowed = TokensOf(tree) /\ tree = pre)
    /\ ("from" \in conv.calls /\ WellFormed(pre))
          => /\ conv.owned = TokensOf(pre)
             /\ "to_conllx" \in conv.calls => conv.borrowed = conv.owned

\* both conversions were applied to a tree of three terminals, one of them
\* with a lemma and two features
C15_Witness ==
    /\ conv.calls = {"to_conllx", "from"} /\ WellFormed(pre)
    /\ Len(conv.owned) >= 3
    /\ \E i \in 1..Len(conv.owned) :
          /\ conv.owned[i].lemma.some
          /\ conv.owned[i].features.some
          /\ Len(pre.node[TerminalAt(pre, i - 1)].features.vec) = 2

\* the step reattaches a handle below the attachment point candidate
Reattaches == pc = "skips" /\ tree'.edges # tree.edges

\* the node whose incoming edge the step replaces
MovedHandle == CHOOSE h \in tree.nodes : Incoming(tree, h) # Incoming(tree', h)

TerminalOf(p) == terminals[p + 1]

C16_ReattachedAgain == \E i \in DOMAIN moves : moves[i].claim # NoClaim

\* every way the inner loop of projectivize() can end for the attachment
\* point candidate a with span sp, from working set W, tree t and log lg,
\* over all orders in which the elements of W can be picked
RECURSIVE SkipOutcomes(_, _, _, _, _)
SkipOutcomes(t, lg, W, sp, a) ==
    IF W = {} THEN {[end |-> "done", tree |-> t, log |-> lg]}
    ELSE UNION {
        IF s \notin DOMAIN lg THEN {[end |-> "panic", tree |-> t, log |-> lg]}
        ELSE IF AlreadyClaimed(lg[s], sp.lower) THEN SkipOutcomes(t, lg, W \ {s}, sp, a)
        ELSE LET start == terminals[s + 1]
                 c == ProjClimb(t, start, start, t.node[start].span, sp)
                 cov == Covered(t.node[c.handle].span)
             IN IF ~c.found THEN {[end |-> "hang", tree |-> t, log |-> lg]}
                ELSE IF ~(cov \subseteq DOMAIN lg)
                THEN {[end |-> "panic", tree |-> t, log |-> lg]}
                ELSE SkipOutcomes(Reattach(t, a, c.handle),
                                  [i \in DOMAIN lg |-> IF i \in cov THEN sp.lower ELSE lg[i]],
                                  W \ cov, sp, a) : s \in W }

\* the successor the traversal takes next: one fixed order of the edge list
FirstPending(S) == CHOOSE n \in S : \A m \in S : n <= m

\* every way the call can end from the traversal state d, tree t and log lg:
\* the traversal follows one fixed successor order, the picks vary
RECURSIVE RestOfRun(_, _, _)
RECURSIVE AfterSkips(_, _, _)
RestOfVisit(t, lg, d, nx) ==
    IF IsNonTerminal(t, nx) /\ IsDiscontinuous(t.node[nx].span)
    THEN UNION {AfterSkips(o, d, nx) :
                    o \in SkipOutcomes(t, lg, t.node[nx].span.skips, t.node[nx].span, nx)}
    ELSE RestOfRun(t, lg, d)

AfterSkips(o, d, a) ==
    IF o.end # "done" THEN {[end |-> o.end, tree |-> o.tree]}
    ELSE RestOfRun(SetSpan(o.tree, a, Continuous(o.tree.node[a].span.lower,
                                                  o.tree.node[a].span.upper)),
                   o.log, d)

RestOfRun(t, lg, d) ==
    IF d.stack = <<>> THEN {[end |-> "done", tree |-> SetProjectivity(t, "Projective")]}
    ELSE IF Top(d.stack).pending = {}
    THEN LET nx == Top(d.stack).node
             d2 == [d EXCEPT !.stack = Pop(@),
                             !.finished = IF nx = NoNode THEN @ ELSE @ \cup {nx}]
         IN IF nx # NoNode /\ nx \notin d.finished
            THEN RestOfVisit(t, lg, d2, nx) ELSE RestOfRun(t, lg, d2)
    ELSE LET nx == FirstPending(Top(d.stack).pending)
             rest == [d.stack EXCEPT ![Len(d.stack)].pending = @ \ {nx}]
         IN IF nx \notin d.discovered
            THEN RestOfRun(t, lg,
                     [d EXCEPT !.discovered = @ \cup {nx},
                               !.stack = Append(rest,
                                   Frame(nx, Children(t, nx) \ (d.discovered \cup {nx})))])
            ELSE LET d2 == [d EXCEPT !.stack = rest, !.finished = @ \cup {nx}]
                 IN IF nx \notin d.finished
                    THEN RestOfVisit(t, lg, d2, nx) ELSE RestOfRun(t, lg, d2)

\* every way the call can end from the current state
Endings ==
    IF pc = "dfs" THEN RestOfRun(tree, log, dfs)
    ELSE UNION {AfterSkips(o, dfs, apc) : o \in SkipOutcomes(tree, log, skips, span, apc)}

\* C17: for every tree satisfying I1-I4 the tree projectivize() produces does
\* not depend on which element of the working skip set is picked at each
\* step of the inner loop: from every state of a call, all pick orders end
\* with the same parent relation, spans and edge labels.
C17_PickOrderIrrelevant ==
    (pc \in {"dfs", "skips"} /\ WellFormed(pre)) =>
        \A e1, e2 \in Endings : e1 = e2

\* the ancestors-or-self of n whose span holds only positions skipped by sp
WithinSkips(t, n, sp) ==
    {a \in ProperAncestors(t, n) \cup {n} : Covered(t.node[a].span) \subseteq sp.skips}

\* the highest of them
HighestWithinSkips(t, n, sp) ==
    CHOOSE h \in WithinSkips(t, n, sp) :
        \A a \in WithinSkips(t, n, sp) : a = h \/ h \in ProperAncestors(t, a)

\* C18: when projectivize() reattaches material for a skipped terminal s of a
\* discontinuous non-terminal A, the node moved is the highest
\* ancestor-or-self of s whose span holds only positions skipped by A, it
\* becomes a child of A under the label of its removed incoming edge, and every
\* position of its span leaves A's working set and is recorded as claimed
\* with A.lower.
C18_HandleIsHighestSkippedAncestor ==
    [][Reattaches =>
          LET m == moves'[Len(moves')]
              s == TerminalOf(m.skipped)
              h == m.handle
              cov == Covered(tree.node[h].span)
          IN /\ WithinSkips(tree, s, span) # {}
             /\ h = HighestWithinSkips(tree, s, span)
             /\ h = MovedHandle
             /\ Incoming(tree', h) = {[src |-> apc, dst |-> h, w |-> ParentEdge(tree, h).w]}
             /\ tree'.edges \ Incoming(tree', h) = tree.edges \ Incoming(tree, h)
             /\ skips' = skips \ cov
             /\ \A p \in DOMAIN log : log'[p] = IF p \in cov THEN span.lower ELSE log[p]]_vars

\* a reattachment moved a non-terminal, not the skipped terminal itself
C18_Witness ==
    \E i \in DOMAIN moves :
        /\ moves[i].handle # TerminalOf(moves[i].skipped)
        /\ Parent(tree, moves[i].handle) = moves[i].to

\* picking s in the current iteration neither panics nor spins: s is a valid
\* index of the log and either its claim drops it from the working set, or
\* the climb finds an ancestor covering a non-skipped position, the handle has
\* a parent edge, its positions are valid indices and one of them leaves the
\* working set
PickMakesProgress(s) ==
    /\ s \in DOMAIN log
    /\ \/ AlreadyClaimed(log[s], span.lower)
       \/ LET start == TerminalOf(s)
              c == ProjClimb(tree, start, start, tree.node[start].span, span)
              cov == Covered(tree.node[c.handle].span)
          IN /\ c.found
             /\ HasParent(tree, c.handle)
             /\ cov \subseteq DOMAIN log
             /\ cov \cap skips # {}

\* no panic, and every pick of the current iteration makes progress
NoPanicAndProgress ==
    (last.op = "projectivize" /\ WellFormed(pre)) =>
        /\ pc # "panic"
        /\ pc = "skips" => \A s \in skips : PickMakesProgress(s)

\* a call on a tree satisfying I1-I4 returned after two reattachments or more
C19_Witness ==
    /\ ProjectivizeReturned
    /\ WellFormed(pre)
    /\ Len(moves) >= 2

\* projectivize() with every step that changes the state taken eventually
SpecProjFair == SpecProj /\ WF_vars(NextProj)

\* a call that was entered returns
Terminates == (pc # "idle") ~> (pc = "idle")

\* C19: on every tree satisfying I1-I4 projectivize() terminates and never
\* panics: every iteration of the inner loop removes a position from the
\* working skip set, the handle has a parent edge, every skipped position is
\* a valid index of the log, and the call returns.
C19_TerminatesWithoutPanic == []NoPanicAndProgress /\ Terminates

\* C20: after collapse_unary_chains on a tree satisfying I1-I3 no unary
\* non-terminal remains: every remaining non-terminal has at least two
\* children and a span strictly larger than each child's span, and the nodes
\* removed are exactly the non-terminals that had a single child in the input.
C20_NoUnaryRemains ==
    (/\ CallReturned /\ last.op = "collapse_unary_chains"
     /\ RootedTree(pre) /\ LeavesAndInner(pre) /\ SpanOfChildren(pre)) =>
        /\ last.ok
        /\ \A n \in tree.nodes :
              IsNonTerminal(tree, n) =>
                  /\ Cardinality(Children(tree, n)) >= 2
                  /\ \A c \in Children(tree, n) :
                        /\ Covered(tree.node[c].span) \subseteq Covered(tree.node[n].span)
                        /\ Covered(tree.node[c].span) # Covered(tree.node[n].span)
        /\ pre.nodes \ tree.nodes = {n \in pre.nodes : IsUnary(pre, n)}
        /\ tree.nodes \subseteq pre.nodes

\* a collapse removed a unary non-terminal and left a non-terminal behind
C20_Witness ==
    /\ CallReturned /\ last.op = "collapse_unary_chains" /\ last.ok
    /\ RootedTree(pre) /\ LeavesAndInner(pre) /\ SpanOfChildren(pre)
    /\ \E n \in pre.nodes : IsUnary(pre, n) /\ n \notin tree.nodes
    /\ \E n \in tree.nodes : IsNonTerminal(tree, n)

\* the terminals of t that have no incoming edge
ParentlessTerminals(t) == {n \in TerminalNodes(t) : ~HasParent(t, n)}

\* annotate_parent_tag or insert_intermediate has returned
ParentWalkReturned ==
    CallReturned /\ last.op \in {"annotate_parent_tag", "insert_intermediate"}

\* C21: annotate_parent_tag and insert_intermediate return an error whenever
\* some terminal has no parent; on a tree satisfying I1 that is the case
\* exactly when the root itself is a terminal, and then the failing call
\* leaves the tree completely unchanged.
C21_ParentlessTerminalIsAnError ==
    ParentWalkReturned =>
        /\ ParentlessTerminals(pre) # {} => ~last.ok
        /\ RootedTree(pre) =>
              /\ ParentlessTerminals(pre) # {} <=> IsTerminal(pre, pre.root)
              /\ IsTerminal(pre, pre.root) => (~last.ok /\ tree = pre)

\* the call failed on the tree collapse_unary_chains left with a terminal root
C21_Witness ==
    /\ ParentWalkReturned
    /\ last2.op = "collapse_unary_chains" /\ last2.ok
    /\ RootedTree(pre) /\ IsTerminal(pre, pre.root)
    /\ ~last.ok

====
